---- MODULE Spec2Model ----
(***************************************************************************)
(* Stock Position Sizer (src/app.py): the resilient price fetch            *)
(* (Investing.com first, then Yahoo Finance), the 10-day average absolute  *)
(* move and the sizing rule, as one state machine.                         *)
(*                                                                         *)
(* Floats are modelled as exact rationals n/d (d > 0, lowest terms) plus   *)
(* NaN.  A price series is a sequence of positive integers in date order;  *)
(* a missing price (NaN entry) is NAN_PRICE.                               *)
(***************************************************************************)
EXTENDS Integers, Sequences, FiniteSets, TLC

VARIABLES
    HAS_INVESTPY,    \* import investpy succeeded (lines 13-17)
    pad,             \* the installed pandas forward-fills in pct_change
    ticker_symbol,   \* text input (line 173), a sequence of characters
    portfolio_size,  \* number input (line 174), whole euros
    general_vol,     \* slider (line 178)
    company_vol,     \* slider (line 180)
    succeedsOn,      \* environment: the attempt on which a provider succeeds
    attempts,        \* requests made to each provider in this run
    outcome,         \* how each provider's last request came back
    delivered,       \* the acceptable series a provider handed over, if any
    calls,           \* the fetch functions called in this run, in order
    pc,              \* position of the script
    raised,          \* an exception escaped fetch_prices_resilient
    prices,          \* first component returned by fetch_prices_resilient
    used_source,     \* second component returned by fetch_prices_resilient
    avg_move,        \* result of avg_abs_move_pct
    result,          \* final_pct, red_move, red_sliders, pos_eur
    message          \* what the handler shows

vars == <<HAS_INVESTPY, pad, ticker_symbol, portfolio_size, general_vol,
          company_vol, succeedsOn, attempts, outcome, delivered, calls, pc, raised,
          prices, used_source, avg_move, result, message>>

---------------------------------------------------------------------------
\* Bounds of the model

\* longest series a provider hands over
MaxLen == 13
\* largest metric, in hundredths of a percent, fed directly to the rule
MaxMetric == 250
\* largest attempt number on which a provider is scripted to succeed
MaxAttempts == 3

---------------------------------------------------------------------------
\* Program constants

\* len(s) >= 12 in fetch_prices_resilient
MIN_POINTS == 12
\* len(prices) < 11 in the handler
HANDLER_MIN == 11
\* window=10 in avg_abs_move_pct
WINDOW == 10
\* slider max_value
MAX_RATING == 5
\* value=2 of both sliders
DEFAULT_RATING == 2
\* value=5000.0 of the portfolio input
DEFAULT_PORTFOLIO == 5000
\* a missing entry of a pandas Series
NAN_PRICE == -1

---------------------------------------------------------------------------
\* Optional values (None or a value)

None == [some |-> FALSE, v |-> <<>>]
Some(x) == [some |-> TRUE, v |-> x]

---------------------------------------------------------------------------
\* Floats: exact rationals and NaN

Abs(x) == IF x < 0 THEN -x ELSE x

RECURSIVE Gcd(_, _)
Gcd(a, b) == IF b = 0 THEN a ELSE Gcd(b, a % b)

NaN == [nan |-> TRUE, n |-> 0, d |-> 1]

\* the float n/d, d # 0, in lowest terms with a positive denominator
Num(n, d) ==
    LET g == Gcd(Abs(n), Abs(d))
        sgn == IF d < 0 THEN -1 ELSE 1
    IN [nan |-> FALSE, n |-> sgn * (n \div g), d |-> sgn * (d \div g)]

IsNaN(x) == x.nan

FAdd(x, y) == IF x.nan \/ y.nan THEN NaN ELSE Num(x.n * y.d + y.n * x.d, x.d * y.d)
FSub(x, y) == IF x.nan \/ y.nan THEN NaN ELSE Num(x.n * y.d - y.n * x.d, x.d * y.d)
FMul(x, y) == IF x.nan \/ y.nan THEN NaN ELSE Num(x.n * y.n, x.d * y.d)
\* divisors are never zero in the program: step_pct, prices and counts are positive
FDiv(x, y) == IF x.nan \/ y.nan THEN NaN ELSE Num(x.n * y.d, x.d * y.n)
FAbs(x) == IF x.nan THEN NaN ELSE Num(Abs(x.n), x.d)
\* every comparison with NaN is false
FLt(x, y) == ~x.nan /\ ~y.nan /\ x.n * y.d < y.n * x.d
FLe(x, y) == ~x.nan /\ ~y.nan /\ x.n * y.d <= y.n * x.d

\* Python's min(a, b): b when b < a, otherwise a
PyMin(a, b) == IF FLt(b, a) THEN b ELSE a
\* Python's max(a, b): b when b > a, otherwise a
PyMax(a, b) == IF FLt(a, b) THEN b ELSE a

---------------------------------------------------------------------------
\* Price series

Rep(v, k) == [i \in 1..k |-> v]

\* the series made of at most two runs of equal entries, at most maxlen long
TwoRun(vals, maxlen) ==
    UNION { { Rep(a, i) \o Rep(b, j) : a \in vals, b \in vals, j \in 0..(maxlen - i) }
            : i \in 0..maxlen }

\* entries of the series handed to the Sizing Engine directly
PriceVals == {NAN_PRICE, 1, 100, 105}
\* entries of the series the providers hand over
ProviderVals == {NAN_PRICE, 100}

SeriesSet == TwoRun(PriceVals, MaxLen)
\* lengths of the series the providers hand over: empty, one entry, and
\* from just under the handler's minimum up to MaxLen
ProviderLens == {0, 1} \cup ((HANDLER_MIN - 1)..MaxLen)
ProviderSeries == {s \in TwoRun(ProviderVals, MaxLen) : Len(s) \in ProviderLens}

\* number of entries that are not missing
Valid(s) == Cardinality({i \in 1..Len(s) : s[i] # NAN_PRICE})

---------------------------------------------------------------------------
\* The ticker text: str.strip() and str.upper()

RECURSIVE LStrip(_)
LStrip(s) == IF s # <<>> /\ Head(s) = " " THEN LStrip(Tail(s)) ELSE s

RECURSIVE RStrip(_)
RStrip(s) ==
    IF s # <<>> /\ s[Len(s)] = " " THEN RStrip(SubSeq(s, 1, Len(s) - 1)) ELSE s

Strip(s) == RStrip(LStrip(s))

UpperChar(ch) ==
    CASE ch = "m" -> "M"
      [] ch = "s" -> "S"
      [] ch = "f" -> "F"
      [] ch = "t" -> "T"
      [] OTHER -> ch

Upper(s) == [i \in 1..Len(s) |-> UpperChar(s[i])]

\* value="MSFT" of the ticker input
DefaultTicker == <<"M", "S", "F", "T">>

\* texts typed into the ticker input
TickerInputs == {DefaultTicker, <<" ", " ">>, <<" ", "m", "s", "f", "t", " ">>}

\* amounts typed into the portfolio input (min_value=0.0)
PortfolioInputs == {0, DEFAULT_PORTFOLIO}

Ratings == 0..MAX_RATING

\* slider positions tried on the page
SliderInputs == {0, DEFAULT_RATING, MAX_RATING}

---------------------------------------------------------------------------
\* The providers (the environment)

INVESTING == "Investing.com"
YAHOO == "Yahoo Finance"
Providers == {INVESTING, YAHOO}

\* a table as delivered: rows of (date, close), oldest or newest first
Table(ser, desc) ==
    [i \in 1..Len(ser) |->
        LET k == IF desc THEN Len(ser) + 1 - i ELSE i
        IN [date |-> k, close |-> ser[k]]]

ColSets ==
    { {}, {"Volume"}, {"Close", "Volume"}, {"Adj Close", "Volume"},
      {"Adj Close", "Close", "Volume"} }

\* what one request to a provider can come back with
Responses ==
    { [kind |-> k, cols |-> {}, rows |-> <<>>] : k \in {"throws", "none"} }
    \cup
    { [kind |-> "table", cols |-> c, rows |-> Table(ser, d)]
        : c \in ColSets, ser \in ProviderSeries, d \in BOOLEAN }

\* the column a provider is asked for
PriceColumns(p) == IF p = INVESTING THEN {"Close"} ELSE {"Adj Close", "Close"}

\* the closes of a table by date (dates of a table are 1..n)
ByDate(rows) ==
    [i \in 1..Len(rows) |->
        (CHOOSE r \in {rows[j] : j \in 1..Len(rows)} : r.date = i).close]

\* how response r of provider p came back
Outcome(p, r) ==
    CASE r.kind = "throws" -> "throws"
      [] r.kind = "none" -> "nothing"
      [] r.rows = <<>> \/ r.cols = {} -> "empty table"
      [] PriceColumns(p) \cap r.cols = {} -> "no price column"
      [] Len(r.rows) < MIN_POINTS -> "short series"
      [] OTHER -> "series"

\* the acceptable series (a price column with at least MIN_POINTS entries)
\* that response r of provider p carries, if any
Delivers(p, r) ==
    IF Outcome(p, r) = "series" THEN Some(ByDate(r.rows)) ELSE None

Fails(p, r) == ~Delivers(p, r).some

Succeeds(p, r) ==
    /\ Delivers(p, r).some
    /\ Valid(Delivers(p, r).v) = Len(r.rows)

\* the responses provider p can give to its a-th request: it fails before
\* attempt succeedsOn[p] and succeeds on it; 0 scripts nothing
Scripted(p, a) ==
    CASE a < succeedsOn[p] -> { r \in Responses : Fails(p, r) }
      [] a = succeedsOn[p] -> { r \in Responses : Succeeds(p, r) }
      [] OTHER -> Responses

---------------------------------------------------------------------------
\* Data fetchers

\* df[name] of a delivered table: the column's entries in delivered order
Column(resp, name) ==
    [i \in 1..Len(resp.rows) |-> [date |-> resp.rows[i].date, v |-> resp.rows[i].close]]

\* one entry put in its place in a column already in ascending date order
RECURSIVE insert(_, _)
insert(e, sorted) ==
    IF sorted = <<>> \/ sorted[Len(sorted)].date <= e.date
    THEN Append(sorted, e)
    ELSE Append(insert(e, SubSeq(sorted, 1, Len(sorted) - 1)), sorted[Len(sorted)])

RECURSIVE by_index(_)
by_index(col) ==
    IF col = <<>> THEN <<>>
    ELSE insert(col[Len(col)], by_index(SubSeq(col, 1, Len(col) - 1)))

\* mutant of sort_index: the entries are left in the order delivered
sort_index_skipped(col) == [i \in 1..Len(col) |-> col[i].v]

\* s.sort_index(): the entries in ascending date order
sort_index(col) ==
    LET sorted == by_index(col)
    IN [i \in 1..Len(col) |-> sorted[i].v]

\* df.empty: no rows or no columns
empty(resp) == resp.rows = <<>> \/ resp.cols = {}

Returned(x) == [exc |-> FALSE, ret |-> x]
Raise == [exc |-> TRUE, ret |-> None]

\* mutant of investing_try: the Yahoo column name is looked for
investing_try_adj_close(resp) ==
    CASE resp.kind = "throws" -> Raise
      [] resp.kind = "none" -> Returned(None)
      [] OTHER ->
            IF empty(resp) \/ "Adj Close" \notin resp.cols
            THEN Returned(None)
            ELSE Returned(Some(sort_index(Column(resp, "Adj Close"))))

\* the try block of fetch_prices_investing
investing_try(resp) ==
    CASE resp.kind = "throws" -> Raise
      [] resp.kind = "none" -> Returned(None)
      [] OTHER ->
            IF empty(resp) \/ "Close" \notin resp.cols
            THEN Returned(None)
            ELSE Returned(Some(sort_index(Column(resp, "Close"))))

\* fetch_prices_investing; resp is what the request comes back with when
\* investpy is there to make one
fetch_prices_investing(resp) ==
    IF ~HAS_INVESTPY THEN Returned(None)
    ELSE LET r == investing_try(resp)
         IN IF r.exc THEN Returned(None) ELSE r

\* the try block of fetch_prices_yf
yf_try(resp) ==
    CASE resp.kind = "throws" -> Raise
      [] resp.kind = "none" -> Returned(None)
      [] OTHER ->
            IF empty(resp) THEN Returned(None)
            ELSE IF "Adj Close" \in resp.cols
            THEN Returned(Some(sort_index(Column(resp, "Adj Close"))))
            ELSE IF "Close" \in resp.cols
            THEN Returned(Some(sort_index(Column(resp, "Close"))))
            ELSE Raise

\* mutant of fetch_prices_yf: no except clause around the try block
fetch_prices_yf_no_except(resp) == yf_try(resp)

\* fetch_prices_yf once the request has come back with resp
fetch_prices_yf(resp) ==
    LET r == yf_try(resp)
    IN IF r.exc THEN Returned(None) ELSE r

\* mutant of Usable: len(s) > 12
Usable_strict(s) == s.some /\ Len(s.v) > MIN_POINTS

\* s is not None and len(s) >= 12
Usable(s) == s.some /\ Len(s.v) >= MIN_POINTS

---------------------------------------------------------------------------
\* Calculations

\* closes.tail(k)
tail(s, k) == IF Len(s) <= k THEN s ELSE SubSeq(s, Len(s) - k + 1, Len(s))

\* forward fill: a missing entry takes the last entry before it that is not
RECURSIVE ffill(_)
ffill(s) ==
    IF Len(s) <= 1 THEN s
    ELSE LET f == ffill(SubSeq(s, 1, Len(s) - 1))
             last == s[Len(s)]
         IN Append(f, IF last = NAN_PRICE THEN f[Len(f)] ELSE last)

\* Series.pct_change(): entry / previous entry - 1, after the forward fill
\* of the pandas versions that do one
pct_change(s, fill) ==
    LET data == IF fill THEN ffill(s) ELSE s
    IN [i \in 1..Len(s) |->
          IF i = 1 \/ data[i] = NAN_PRICE \/ data[i - 1] = NAN_PRICE
          THEN NaN
          ELSE FSub(FDiv(Num(data[i], 1), Num(data[i - 1], 1)), Num(1, 1))]

\* Series.dropna()
dropna(s) == SelectSeq(s, LAMBDA x : ~IsNaN(x))

RECURSIVE Sum(_)
Sum(s) == IF s = <<>> THEN Num(0, 1) ELSE FAdd(Head(s), Sum(Tail(s)))

\* Series.mean(): NaN for an empty series
mean(s) == IF s = <<>> THEN NaN ELSE FDiv(Sum(s), Num(Len(s), 1))

avg_abs_move_pct(closes, window, fill) ==
    IF ~closes.some \/ Len(closes.v) < window + 1
    THEN None
    ELSE LET changes == dropna(pct_change(tail(closes.v, window + 1), fill))
             recent == [i \in 1..Len(changes) |-> FMul(changes[i], Num(100, 1))]
         IN Some(mean([i \in 1..Len(recent) |-> FAbs(recent[i])]))

base_pct == Num(30, 1)
per_step_reduce == Num(3, 2)
step_pct == Num(1, 10)
vol_penalty_per_point == Num(3, 1)

\* mutant of clamp: max(min(final_pct, 100.0), 0.0)
clamp_swapped(final_pct) == PyMax(PyMin(final_pct, Num(100, 1)), Num(0, 1))

\* max(0.0, min(100.0, final_pct))
clamp(final_pct) == PyMax(Num(0, 1), PyMin(Num(100, 1), final_pct))

\* mutant of position_pct_from_rule: the company slider is left out
rule_general_only(avg_move_pct, g, c) ==
    LET reduction_from_move == FMul(per_step_reduce, FDiv(avg_move_pct, step_pct))
        reduction_from_sliders == FMul(vol_penalty_per_point, Num(g, 1))
        final_pct == FSub(FSub(base_pct, reduction_from_move), reduction_from_sliders)
    IN [final_pct |-> clamp(final_pct),
        red_move |-> reduction_from_move,
        red_sliders |-> reduction_from_sliders]

position_pct_from_rule(avg_move_pct, g, c) ==
    LET reduction_from_move == FMul(per_step_reduce, FDiv(avg_move_pct, step_pct))
        reduction_from_sliders == FMul(vol_penalty_per_point, Num(g + c, 1))
        final_pct == FSub(FSub(base_pct, reduction_from_move), reduction_from_sliders)
    IN [final_pct |-> clamp(final_pct),
        red_move |-> reduction_from_move,
        red_sliders |-> reduction_from_sliders]

---------------------------------------------------------------------------
\* The button handler

NOT_ENOUGH == "Not enough historical data available (need at least 11 closes)."
COULD_NOT == "Could not compute 10-day average absolute move."
SUCCESS == "Position size"

\* lines 198-212: the rule and the conversion to currency
rule_branch(am, g, c, portfolio) ==
    LET r == position_pct_from_rule(am.v, g, c)
        pos_eur == FMul(Num(portfolio, 1), FDiv(r.final_pct, Num(100, 1)))
    IN [avg_move |-> am,
        result |-> Some([final_pct |-> r.final_pct, red_move |-> r.red_move,
                         red_sliders |-> r.red_sliders, pos_eur |-> pos_eur]),
        message |-> SUCCESS]

\* lines 194-212: the metric, then the rule
sizing_branch(p, g, c, portfolio, fill) ==
    LET am == avg_abs_move_pct(p, WINDOW, fill)
    IN IF ~am.some
       THEN [avg_move |-> None, result |-> None, message |-> COULD_NOT]
       ELSE rule_branch(am, g, c, portfolio)

\* lines 187-212: what the handler does with the fetched prices
handler_branch(p, g, c, portfolio, fill) ==
    IF ~p.some \/ Len(p.v) < HANDLER_MIN
    THEN [avg_move |-> None, result |-> None, message |-> NOT_ENOUGH]
    ELSE sizing_branch(p, g, c, portfolio, fill)

---------------------------------------------------------------------------
\* The state machine

widgets == <<ticker_symbol, portfolio_size, general_vol, company_vol>>
build == <<HAS_INVESTPY, pad>>
outputs == <<avg_move, result, message>>
fetched == <<prices, used_source>>
history == <<attempts, outcome, delivered, calls>>

\* a fresh run of the script: nothing fetched, nothing shown
Cleared ==
    /\ attempts = [p \in Providers |-> 0]
    /\ outcome = [p \in Providers |-> ""]
    /\ delivered = [p \in Providers |-> None]
    /\ calls = <<>>
    /\ raised = FALSE
    /\ prices = None
    /\ used_source = ""
    /\ avg_move = None
    /\ result = None
    /\ message = ""

Defaults ==
    /\ ticker_symbol = DefaultTicker
    /\ portfolio_size = DEFAULT_PORTFOLIO
    /\ general_vol = DEFAULT_RATING
    /\ company_vol = DEFAULT_RATING

Init ==
    /\ HAS_INVESTPY \in BOOLEAN
    /\ pad \in BOOLEAN
    /\ succeedsOn = [p \in Providers |-> 0]
    /\ Defaults
    /\ Cleared
    /\ pc = "idle"

\* the script starts over: what the last run fetched and showed is gone
Restart ==
    /\ attempts' = [p \in Providers |-> 0]
    /\ outcome' = [p \in Providers |-> ""]
    /\ delivered' = [p \in Providers |-> None]
    /\ raised' = FALSE
    /\ prices' = None
    /\ used_source' = ""
    /\ avg_move' = None
    /\ result' = None
    /\ message' = ""

\* a widget is changed: the script reruns with the button not pressed
Rerun ==
    /\ pc' = "idle"
    /\ calls' = <<>>
    /\ Restart
    /\ UNCHANGED <<build, succeedsOn>>

SetTicker ==
    /\ pc = "idle"
    /\ \E t \in TickerInputs : ticker_symbol' = t
    /\ Rerun
    /\ UNCHANGED <<portfolio_size, general_vol, company_vol>>

SetPortfolio ==
    /\ pc = "idle"
    /\ \E a \in PortfolioInputs : portfolio_size' = a
    /\ Rerun
    /\ UNCHANGED <<ticker_symbol, general_vol, company_vol>>

SetGeneral ==
    /\ pc = "idle"
    /\ \E v \in SliderInputs : general_vol' = v
    /\ Rerun
    /\ UNCHANGED <<ticker_symbol, portfolio_size, company_vol>>

SetCompany ==
    /\ pc = "idle"
    /\ \E v \in SliderInputs : company_vol' = v
    /\ Rerun
    /\ UNCHANGED <<ticker_symbol, portfolio_size, general_vol>>

\* the script reruns after a press of the button was handled
Refresh ==
    /\ pc \in {"done", "raised"}
    /\ Rerun
    /\ UNCHANGED widgets

\* lines 183-186: the button is pressed and fetch_prices_resilient is called
Click ==
    /\ pc = "idle"
    /\ pc' = "investing"
    /\ calls' = <<[fn |-> "fetch_prices_resilient",
                   ticker |-> Upper(Strip(ticker_symbol))]>>
    /\ Restart
    /\ UNCHANGED <<build, succeedsOn, widgets>>

\* a call of a fetch function with the ticker fetch_prices_resilient was given
Called(fn) == Append(calls, [fn |-> fn, ticker |-> calls[1].ticker])

\* the request to provider p comes back with resp
Request(p, resp) ==
    /\ attempts' = [attempts EXCEPT ![p] = @ + 1]
    /\ outcome' = [outcome EXCEPT ![p] = Outcome(p, resp)]
    /\ delivered' = [delivered EXCEPT ![p] = Delivers(p, resp)]

\* lines 97-98: the primary's series is returned if it is usable
AfterInvesting(r) ==
    IF r.exc
    THEN /\ pc' = "raised"
         /\ raised' = TRUE
         /\ UNCHANGED fetched
    ELSE IF Usable(r.ret)
    THEN /\ pc' = "fetched"
         /\ prices' = r.ret
         /\ used_source' = INVESTING
         /\ UNCHANGED raised
    ELSE /\ pc' = "yahoo"
         /\ UNCHANGED <<fetched, raised>>

\* no request is made without investpy
NoRequest == [kind |-> "none", cols |-> {}, rows |-> <<>>]

\* lines 95-98: Investing.com is tried first
CallInvesting ==
    /\ pc = "investing"
    /\ calls' = Called("fetch_prices_investing")
    /\ IF HAS_INVESTPY
       THEN \E resp \in Scripted(INVESTING, attempts[INVESTING] + 1) :
                /\ Request(INVESTING, resp)
                /\ AfterInvesting(fetch_prices_investing(resp))
       ELSE /\ UNCHANGED <<attempts, outcome, delivered>>
            /\ AfterInvesting(fetch_prices_investing(NoRequest))
    /\ UNCHANGED <<build, succeedsOn, widgets, outputs>>

\* lines 100-104: then Yahoo Finance
CallYahoo ==
    /\ pc = "yahoo"
    /\ calls' = Called("fetch_prices_yf")
    /\ \E resp \in Scripted(YAHOO, attempts[YAHOO] + 1) :
          LET r == fetch_prices_yf(resp)
          IN /\ Request(YAHOO, resp)
             /\ IF r.exc
                THEN /\ pc' = "raised"
                     /\ raised' = TRUE
                     /\ UNCHANGED fetched
                ELSE IF Usable(r.ret)
                THEN /\ pc' = "fetched"
                     /\ prices' = r.ret
                     /\ used_source' = YAHOO
                     /\ UNCHANGED raised
                ELSE /\ pc' = "fetched"
                     /\ prices' = None
                     /\ used_source' = "None"
                     /\ UNCHANGED raised
    /\ UNCHANGED <<build, succeedsOn, widgets, outputs>>

Show(o) ==
    /\ avg_move' = o.avg_move
    /\ result' = o.result
    /\ message' = o.message

\* lines 187-220: the handler reports on what was fetched
Report ==
    /\ pc = "fetched"
    /\ pc' = "done"
    /\ Show(handler_branch(prices, general_vol, company_vol, portfolio_size, pad))
    /\ UNCHANGED <<build, succeedsOn, widgets, history, raised, fetched>>

Next ==
    \/ SetTicker
    \/ SetPortfolio
    \/ SetGeneral
    \/ SetCompany
    \/ Refresh
    \/ Click
    \/ CallInvesting
    \/ CallYahoo
    \/ Report

Spec == Init /\ [][Next]_vars

---------------------------------------------------------------------------
\* The fetch alone, against providers scripted to fail and then succeed

InitFetch ==
    /\ HAS_INVESTPY \in BOOLEAN
    /\ pad = TRUE
    /\ succeedsOn \in [Providers -> 0..MaxAttempts]
    /\ Defaults
    /\ Cleared
    /\ pc = "idle"

NextFetch ==
    \/ SetTicker
    \/ Click
    \/ CallInvesting
    \/ CallYahoo

SpecFetch == InitFetch /\ [][NextFetch]_vars

---------------------------------------------------------------------------
\* The Sizing Engine alone: avg_abs_move_pct and the rule on any series

InitSizing ==
    /\ HAS_INVESTPY = TRUE
    /\ pad \in BOOLEAN
    /\ succeedsOn = [p \in Providers |-> 0]
    /\ ticker_symbol = DefaultTicker
    /\ portfolio_size = DEFAULT_PORTFOLIO
    /\ general_vol \in Ratings
    /\ company_vol \in Ratings
    /\ attempts = [p \in Providers |-> 0]
    /\ outcome = [p \in Providers |-> ""]
    /\ delivered = [p \in Providers |-> None]
    /\ calls = <<>>
    /\ raised = FALSE
    /\ prices \in {None} \cup {Some(s) : s \in SeriesSet}
    /\ used_source = ""
    /\ avg_move = None
    /\ result = None
    /\ message = ""
    /\ pc = "sizing"

\* lines 194-212 applied to the series
ApplySizing ==
    /\ pc = "sizing"
    /\ pc' = "done"
    /\ Show(sizing_branch(prices, general_vol, company_vol, portfolio_size, pad))
    /\ UNCHANGED <<build, succeedsOn, widgets, history, raised, fetched>>

NextSizing == ApplySizing

SpecSizing == InitSizing /\ [][NextSizing]_vars

---------------------------------------------------------------------------
\* The rule alone: lines 198-212 on any metric

\* the metrics fed to the rule: m hundredths of a percent, and not-a-number
MetricInputs == {Some(NaN)} \cup {Some(Num(m, 100)) : m \in 0..MaxMetric}

InitRule ==
    /\ HAS_INVESTPY = TRUE
    /\ pad = TRUE
    /\ succeedsOn = [p \in Providers |-> 0]
    /\ ticker_symbol = DefaultTicker
    /\ portfolio_size \in PortfolioInputs
    /\ general_vol \in Ratings
    /\ company_vol \in Ratings
    /\ attempts = [p \in Providers |-> 0]
    /\ outcome = [p \in Providers |-> ""]
    /\ delivered = [p \in Providers |-> None]
    /\ calls = <<>>
    /\ raised = FALSE
    /\ prices = None
    /\ used_source = ""
    /\ avg_move \in MetricInputs
    /\ result = None
    /\ message = ""
    /\ pc = "rule"

\* lines 198-212 applied to the metric
ApplyRule ==
    /\ pc = "rule"
    /\ pc' = "done"
    /\ Show(rule_branch(avg_move, general_vol, company_vol, portfolio_size))
    /\ UNCHANGED <<build, succeedsOn, widgets, history, raised, fetched>>

NextRule == ApplyRule

SpecRule == InitRule /\ [][NextRule]_vars

---------------------------------------------------------------------------
\* Properties of the fetch (SpecFetch)

Installed(p) == p = YAHOO \/ HAS_INVESTPY

CalledFns == {calls[i].fn : i \in 1..Len(calls)}

\* C2: fetch_prices_resilient never raises to its caller, whatever the
\* providers do (throw, return nothing, an empty table, a table without a
\* price column, a series that is too short); when neither provider hands
\* over an acceptable series it returns None with the source label "None".
C2_NeverRaises ==
    /\ ~raised
    /\ pc # "raised"
    /\ (pc = "fetched" /\ \A p \in Providers : ~delivered[p].some)
          => (~prices.some /\ used_source = "None")

\* C2 witness: Investing.com threw, Yahoo's table had no price column, and
\* the fetch returned None, "None"
C2_Witness ==
    /\ pc = "fetched"
    /\ outcome[INVESTING] = "throws"
    /\ outcome[YAHOO] = "no price column"
    /\ ~prices.some
    /\ used_source = "None"
    /\ ~raised

\* C3: when the primary is unavailable or returns an unusable result and the
\* secondary hands over an acceptable series, the fetch returns exactly the
\* secondary's series, labelled "Yahoo Finance".
C3_Fallback ==
    (pc = "fetched" /\ outcome[INVESTING] # "series" /\ delivered[YAHOO].some)
        => (prices = delivered[YAHOO] /\ used_source = YAHOO)

\* C3 witness: the primary threw and the secondary's series was returned
C3_Witness ==
    /\ pc = "fetched"
    /\ outcome[INVESTING] = "throws"
    /\ delivered[YAHOO].some
    /\ prices = delivered[YAHOO]
    /\ used_source = YAHOO

C5_MinValidPoints ==
    (pc = "fetched" /\ prices.some) => Valid(prices.v) >= MIN_POINTS

\* C10: the secondary is queried only after the primary has returned an
\* unusable result; when the primary hands over an acceptable series the
\* fetch returns it labelled "Investing.com" and never calls the secondary.
C10_PrimaryFirst ==
    /\ "fetch_prices_yf" \in CalledFns =>
          /\ Len(calls) = 3
          /\ calls[2].fn = "fetch_prices_investing"
          /\ calls[3].fn = "fetch_prices_yf"
          /\ outcome[INVESTING] # "series"
    /\ attempts[YAHOO] > 0 => "fetch_prices_yf" \in CalledFns
    /\ delivered[INVESTING].some =>
          /\ pc = "fetched"
          /\ prices = delivered[INVESTING]
          /\ used_source = INVESTING
          /\ "fetch_prices_yf" \notin CalledFns
          /\ attempts[YAHOO] = 0

\* C10 witness: the primary's series was returned without a call of the
\* secondary
C10_Witness ==
    /\ pc = "fetched"
    /\ delivered[INVESTING].some
    /\ used_source = INVESTING
    /\ attempts[YAHOO] = 0

---------------------------------------------------------------------------
\* Properties of the page (Spec)

InvalidInput ==
    \/ Strip(ticker_symbol) = <<>>
    \/ general_vol \notin Ratings
    \/ company_vol \notin Ratings
    \/ portfolio_size < 0

\* C8 as claimed: with an empty ticker (after trimming), a rating outside
\* 0..5 or a negative portfolio amount, no fetch is started.
C8_InvalidInputNoFetch ==
    InvalidInput => (calls = <<>> /\ \A p \in Providers : attempts[p] = 0)

\* a series came back but it has fewer entries than the metric needs, and
\* no provider handed over an acceptable one
InsufficientHistory ==
    /\ \E p \in Providers : outcome[p] = "short series"
    /\ \A p \in Providers : ~delivered[p].some

\* every provider that was tried failed to hand over any series
DataUnavailable ==
    \A p \in Providers :
        outcome[p] \in {"", "throws", "nothing", "empty table", "no price column"}

\* C9 as claimed: a series that was retrieved but is too short is reported
\* differently from a fetch that exhausted all providers (which the page
\* reports with NOT_ENOUGH).
C9_DistinctFailures ==
    /\ (pc = "done" /\ DataUnavailable) => message = NOT_ENOUGH
    /\ (pc = "done" /\ InsufficientHistory) => message # NOT_ENOUGH

---------------------------------------------------------------------------
\* Properties of the Sizing Engine (SpecSizing)

\* C1: for every metric avg_abs_move_pct can produce (large, zero or
\* not-a-number) and every pair of ratings, finalPercent lies in [0, 100].
C1_FinalPercentInRange ==
    (pc = "done" /\ result.some) =>
        /\ ~IsNaN(result.v.final_pct)
        /\ FLe(Num(0, 1), result.v.final_pct)
        /\ FLe(result.v.final_pct, Num(100, 1))

\* C1 witness: the metric is not-a-number and a final percent was produced
C1_Witness ==
    /\ pc = "done"
    /\ avg_move.some
    /\ result.some
    /\ IsNaN(avg_move.v)
    /\ ~IsNaN(result.v.final_pct)

\* C6 as claimed: with fewer than 11 valid price points (so also when no
\* return can be formed) the metric is absent, never a number.
C6_InsufficientIsAbsent ==
    (pc = "done" /\ (~prices.some \/ Valid(prices.v) < WINDOW + 1))
        => ~avg_move.some

---------------------------------------------------------------------------
\* Properties of the rule (SpecRule)

\* 30 - 1.5*(m/0.10) - 3*(g+c) for the metric n/d, times d
Unclamped(n, d, g, c) == 30 * d - 15 * n - 3 * (g + c) * d

\* the same clamped to [0, 100], times d
Clamped(n, d, g, c) ==
    IF Unclamped(n, d, g, c) < 0 THEN 0
    ELSE IF Unclamped(n, d, g, c) > 100 * d THEN 100 * d
    ELSE Unclamped(n, d, g, c)

\* x is the rational n/d
Is(x, n, d) == ~IsNaN(x) /\ x.n * d = n * x.d

\* C7: for every metric m >= 0 and ratings g, c the rule returns the clamp
\* to [0, 100] of 30 - 1.5*(m/0.10) - 3*(g+c) with the reductions
\* 1.5*(m/0.10) and 3*(g+c); m = 0.50, g = 2, c = 1 gives 13.5 (675 of 5000)
\* and m = 2.00, g = 0, c = 0 gives 0.
C7_RuleFormula ==
    (pc = "done" /\ result.some /\ ~IsNaN(avg_move.v)) =>
        LET n == avg_move.v.n
            d == avg_move.v.d
            g == general_vol
            c == company_vol
            r == result.v
        IN /\ Is(r.final_pct, Clamped(n, d, g, c), d)
           /\ Is(r.red_move, 15 * n, d)
           /\ Is(r.red_sliders, 3 * (g + c), 1)
           /\ Is(r.pos_eur, portfolio_size * Clamped(n, d, g, c), 100 * d)
           /\ (Is(avg_move.v, 1, 2) /\ g = 2 /\ c = 1) =>
                 /\ Is(r.final_pct, 27, 2)
                 /\ portfolio_size = 5000 => Is(r.pos_eur, 675, 1)
           /\ (Is(avg_move.v, 2, 1) /\ g = 0 /\ c = 0) => Is(r.final_pct, 0, 1)

\* C7 witness: m = 0.50, g = 2, c = 1 on a portfolio of 5000 gave 13.5
\* percent, 675 euros
C7_Witness ==
    /\ pc = "done"
    /\ result.some
    /\ Is(avg_move.v, 1, 2)
    /\ general_vol = 2
    /\ company_vol = 1
    /\ portfolio_size = 5000
    /\ Is(result.v.final_pct, 27, 2)
    /\ Is(result.v.pos_eur, 675, 1)

====
